---- MODULE Spec2Model ----
(***************************************************************************)
(* A model of the applied servo device controller (src/src/lib.rs).        *)
(*                                                                         *)
(* The controller is one blocking thread talking to one device over a      *)
(* register transport.  The state is the AppliedDevice struct, the locals  *)
(* of the functions on the call stack, the position in the code (pc and    *)
(* the stack of return places) and the clock.  The device is the           *)
(* environment: every register read draws the value the device answers     *)
(* with.  Every action is one transport call (or one call/return) of the   *)
(* source, with the control flow and the sleep that follow it.             *)
(***************************************************************************)
EXTENDS Integers, Sequences, FiniteSets, TLC

(***************************************************************************)
(* Register map and limits, lib.rs 13-28.                                  *)
(***************************************************************************)
ALARM_REG == 0
STATUS_REG == 1
ENCODER_POS_1_REG == 4
ENCODER_POS_2_REG == 5
MAX_REGISTER == 56
MAX_32_BIT == 65536
MAX_HOMING_TIME == 60
MAX_MOVE_TIME == 30
ENCODER_POSITION_RANGE == 1000
ACCELERATION == 27
DECELERATION == 28
VELOCITY == 29
DISTANCE_1 == 30
DISTANCE_2 == 31
EXECUTE_COMMAND == 124

\* Literals of the source: the mode-select register and the command codes.
MODE_SELECT == 125
CMD_RESET == 186
CMD_ENABLE == 159
CMD_DISABLE == 158
CMD_HOME == 120
CMD_MOVE == 103
CMD_DISCONNECT == 254
\* try_count > 2 ends the reset loop (lib.rs 175).
RESET_TRY_LIMIT == 2

\* Sleeps of the source, in milliseconds.
SETTLE_MS == 1000
POLL_MS == 300
LATCH_MS == 25
SHORT_MS == 10

(***************************************************************************)
(* STATUS NAMES and the two bit tables, lib.rs 31-80.                      *)
(***************************************************************************)
MOTOR_ENABLED == "Motor Enabled"
TUNING == "Tuning"
FAULT == "Fault"
IN_POSITION == "In Position"
MOVING == "Moving"
JOGGING == "Jogging"
STOPPING == "Stopping"
WAIT_FOR_INPUT == "Wait for Input"
SAVING == "Saving"
ALARM == "Alarm"
HOMING == "Homing"
DELAY == "Delay"
WIZARD_RUNNING == "Wizard Running"
INITIALIZING == "Initializing"

ALARM_CODE_NAMES ==
    << "Position Limit Error", "CCW Limit Error", "CW Limit Error",
       "Over Temp Error", "Internal Voltage Error", "Over Voltage Error",
       "Under Voltage Error", "Over Current Error", "Open Motor Winding Error",
       "Bad Encoder Error", "Comm Error", "Bad Flash Error", "No Move Error",
       "Motor resistance out of range", "Blank Q Segment", "No Move" >>

STATUS_CODE_NAMES ==
    << MOTOR_ENABLED, TUNING, FAULT, IN_POSITION, MOVING, JOGGING, STOPPING,
       WAIT_FOR_INPUT, SAVING, ALARM, HOMING, DELAY, WIZARD_RUNNING,
       INITIALIZING >>

(***************************************************************************)
(* Fixed-width integers.  A u16 is an integer in 0..65535.  A u64 is its   *)
(* eight bytes, least significant first, so that the values the source     *)
(* computes in u64 keep their width: sums carry, differences borrow, and   *)
(* a carry or borrow out of the top byte is the overflow of the source.    *)
(***************************************************************************)
BYTE == 256
U64_BYTES == 8
U16_MOD == 65536

\* `n as u64` for a value n of at most 31 bits: its four low bytes, then zeros.
U64(n) ==
    << n % BYTE, (n \div BYTE) % BYTE, (n \div (BYTE * BYTE)) % BYTE,
       n \div (BYTE * BYTE * BYTE), 0, 0, 0, 0 >>

RECURSIVE CarryIn(_, _, _)
CarryIn(a, b, i) ==
    IF i = 1 THEN 0 ELSE (a[i - 1] + b[i - 1] + CarryIn(a, b, i - 1)) \div BYTE

\* a + b in u64: the wrapped sum, and whether it overflowed.
AddU64(a, b) == [i \in 1..U64_BYTES |-> (a[i] + b[i] + CarryIn(a, b, i)) % BYTE]
AddOverflows(a, b) == CarryIn(a, b, U64_BYTES + 1) = 1

RECURSIVE BorrowIn(_, _, _)
BorrowIn(a, b, i) ==
    IF i = 1 THEN 0
    ELSE IF a[i - 1] - b[i - 1] - BorrowIn(a, b, i - 1) < 0 THEN 1 ELSE 0

\* a - b in u64: the wrapped difference, and whether it overflowed.
SubU64(a, b) ==
    [i \in 1..U64_BYTES |-> (a[i] - b[i] - BorrowIn(a, b, i) + BYTE) % BYTE]
SubOverflows(a, b) == BorrowIn(a, b, U64_BYTES + 1) = 1

RECURSIVE LessFrom(_, _, _)
LessFrom(a, b, i) ==
    IF i = 0 THEN FALSE
    ELSE IF a[i] # b[i] THEN a[i] < b[i]
    ELSE LessFrom(a, b, i - 1)

\* a <= b and a >= b in u64.
LeqU64(a, b) == ~LessFrom(b, a, U64_BYTES)
GeqU64(a, b) == ~LessFrom(a, b, U64_BYTES)

\* Long division of a u64 by a divisor d <= 65536: the remainder left after
\* the bytes from the top down to byte i.
RECURSIVE RemFrom(_, _, _)
RemFrom(a, d, i) ==
    IF i > U64_BYTES THEN 0 ELSE (RemFrom(a, d, i + 1) * BYTE + a[i]) % d

DivU64(a, d) ==
    [i \in 1..U64_BYTES |-> (RemFrom(a, d, i + 1) * BYTE + a[i]) \div d]
ModU64(a, d) == U64(RemFrom(a, d, 1))

RECURSIVE MulCarry(_, _, _)
MulCarry(a, m, i) ==
    IF i = 1 THEN 0 ELSE (a[i - 1] * m + MulCarry(a, m, i - 1)) \div BYTE

\* a * m in u64 for a multiplier m <= 65536.
MulU64(a, m) == [i \in 1..U64_BYTES |-> (a[i] * m + MulCarry(a, m, i)) % BYTE]

\* A conversion that saturates at 65535 instead of truncating: C20 tells it
\* from the source's.
AsU16Saturating(a) ==
    IF \E i \in 3..U64_BYTES : a[i] # 0 THEN U16_MOD - 1 ELSE a[1] + a[2] * BYTE
\* `value as u16`: the low sixteen bits.
AsU16(a) == (a[1] + a[2] * BYTE) % U16_MOD

(***************************************************************************)
(* Decoding of a register into flag names, lib.rs 132-137 and 147-152:     *)
(* the names of the table whose bit is set in `read`, in table order.      *)
(***************************************************************************)
BitSet(read, i) == (read \div (2 ^ i)) % 2 = 1

RECURSIVE DecodeUpTo(_, _, _)
DecodeUpTo(names, read, n) ==
    IF n = 0 THEN <<>>
    ELSE IF BitSet(read, n - 1)
         THEN Append(DecodeUpTo(names, read, n - 1), names[n])
         ELSE DecodeUpTo(names, read, n - 1)

DecodeFlags(names, read) == DecodeUpTo(names, read, Len(names))

\* Vec::contains
Contains(v, name) == \E i \in 1..Len(v) : v[i] = name

(***************************************************************************)
(* The position codec: the split move_servo makes (lib.rs 245-246), what   *)
(* write_register then sends (lib.rs 340), and the join get_encoder_count  *)
(* makes (lib.rs 122).                                                     *)
(***************************************************************************)
\* A high word taken with the remainder instead of the quotient: the codec
\* property C7 tells it from the source's.
Move1Remainder(encoder_position) == ModU64(encoder_position, MAX_32_BIT)
Move1(encoder_position) == DivU64(encoder_position, MAX_32_BIT)
Move2(encoder_position) == ModU64(encoder_position, MAX_32_BIT)
EncoderPosition(x, y) == AddU64(U64(y), MulU64(U64(x), MAX_32_BIT))

(***************************************************************************)
(* The tolerance check of in_range (lib.rs 306-310) on the wrapped bounds, *)
(* and whether computing the bounds overflows u64.                         *)
(***************************************************************************)
MinPos(requested_pos) == SubU64(requested_pos, U64(ENCODER_POSITION_RANGE))
MaxPos(requested_pos) == AddU64(requested_pos, U64(ENCODER_POSITION_RANGE))
BoundsOverflow(requested_pos) ==
    \/ SubOverflows(requested_pos, U64(ENCODER_POSITION_RANGE))
    \/ AddOverflows(requested_pos, U64(ENCODER_POSITION_RANGE))
WithinBounds(requested_pos, pos) ==
    GeqU64(pos, MinPos(requested_pos)) /\ LeqU64(pos, MaxPos(requested_pos))

\* The loop tests of the source.
\* A try limit one higher: C17 tells it from the source's.
ResetGivesUpLater(tries) == tries > RESET_TRY_LIMIT + 1
ResetGivesUp(tries) == tries > RESET_TRY_LIMIT
SecsOf(ms) == ms \div 1000
\* A deadline test with >= in place of >: C3 tells it from the source's.
HomingTimedOutAtLimit(elapsed_ms) == SecsOf(elapsed_ms) >= MAX_HOMING_TIME
HomingTimedOut(elapsed_ms) == SecsOf(elapsed_ms) > MAX_HOMING_TIME
\* A deadline test with >= in place of >: C15 tells it from the source's.
MoveTimedOutAtLimit(elapsed_ms) == SecsOf(elapsed_ms) >= MAX_MOVE_TIME
MoveTimedOut(elapsed_ms) == SecsOf(elapsed_ms) > MAX_MOVE_TIME

(***************************************************************************)
(* What the device may answer.  Flag(name) is the bit of a status name.    *)
(***************************************************************************)
\* Model bound: the polls the free device stays busy with a command.
MaxPolls == 2

Flag(name) ==
    2 ^ ((CHOOSE i \in 1..Len(STATUS_CODE_NAMES) : STATUS_CODE_NAMES[i] = name) - 1)

\* Status words the simulated device reports; the last one also sets the two
\* bits above the table.
AllStatus ==
    { 0,
      Flag(MOTOR_ENABLED),
      Flag(FAULT),
      Flag(ALARM),
      Flag(MOTOR_ENABLED) + Flag(IN_POSITION),
      Flag(MOTOR_ENABLED) + Flag(MOVING),
      Flag(MOVING) + Flag(ALARM),
      Flag(MOTOR_ENABLED) + Flag(HOMING),
      Flag(HOMING) + Flag(ALARM),
      Flag(HOMING) + Flag(FAULT),
      49152 + Flag(MOTOR_ENABLED) }

HasFlag(read, name) == Contains(DecodeFlags(STATUS_CODE_NAMES, read), name)

\* The simulated transports: one that answers anything, and the stuck
\* devices of the test scenarios.
Sims == {"free", "alarm_stuck", "homing_stuck", "moving_stuck", "settled", "moving"}

AlarmStuck == {v \in AllStatus : HasFlag(v, ALARM)}
HomingStuck == {v \in AllStatus : HasFlag(v, HOMING)}
MovingStuck == {v \in AllStatus : HasFlag(v, MOVING) /\ ~HasFlag(v, IN_POSITION)}
\* The device that reports Moving at every read, with Alarm or Fault or
\* neither; at the In Position test of its first MaxPolls polls it may
\* report In Position as well, and later never.
Moving ==
    { Flag(MOTOR_ENABLED) + Flag(MOVING),
      Flag(MOVING) + Flag(ALARM),
      Flag(MOVING) + Flag(FAULT) }
Arrived == { Flag(MOTOR_ENABLED) + Flag(MOVING) + Flag(IN_POSITION) }
Settled ==
    {v \in AllStatus : HasFlag(v, MOTOR_ENABLED) /\ ~HasFlag(v, MOVING)
                         /\ ~HasFlag(v, HOMING)}

StatusOf(s) ==
    CASE s = "free" -> AllStatus
      [] s = "alarm_stuck" -> AlarmStuck
      [] s = "homing_stuck" -> HomingStuck
      [] s = "moving_stuck" -> MovingStuck
      [] s = "settled" -> Settled
      [] s = "moving" -> Moving

\* The status words a loop test may read while the device works on the
\* command named by `busy`: the free device is done with it after MaxPolls
\* polls, a stuck device never.
StatusWhile(s, busy, polled) ==
    IF s = "free" /\ polled >= MaxPolls
    THEN {v \in StatusOf(s) : ~HasFlag(v, busy)}
    ELSE StatusOf(s)

\* The status words the In Position test of move_servo (lib.rs 279) may read.
StatusAtArrivalTest(s, polled) ==
    IF s = "moving" /\ polled < MaxPolls
    THEN StatusOf(s) \cup Arrived
    ELSE StatusOf(s)

\* Alarm words: none, bit 0, bits 0 and 2, bit 15.
AlarmValues == {0, 1, 5, 32768}

\* Encoder words.
EncoderHigh == {0, 1}
EncoderLow == {0, 10, 1500, 1501}

(***************************************************************************)
(* State.                                                                  *)
(*   servo_status, servo_alarm, servo_cycle_count: the AppliedDevice       *)
(*     fields (lib.rs 87-89);                                              *)
(*   alarm_present, fault_present, try_count: locals of                    *)
(*     reset_alarm_or_fault; x: the first word get_encoder_count read;     *)
(*     curr_pos, in_range_ret: what get_encoder_count and in_range return; *)
(*   op, accel, decel, velocity, encoder_position: the public function     *)
(*     the caller invoked and its arguments; pc, stack: the place in the   *)
(*     code and the return places of the calls under way;                  *)
(*   clock: milliseconds slept since the caller's call (see Capture); now: *)
(*     the clock at                                                        *)
(*     Instant::now(); polls: the poll sleeps of the call, up to MaxPolls; *)
(*   io: the transport calls made since the caller's call or since the     *)
(*     last poll sleep, oldest first: <<"r", register, 0>> for a read and  *)
(*     <<"w", register, value sent>> for a write, <<"d", first register,   *)
(*     count>> for the block read of dump_registers, and <<"e", register,  *)
(*     0>> for a transport call that failed with an I/O error;             *)
(*   last_read: the word the last read of the call returned;               *)
(*   count_at_call: servo_cycle_count when the caller called;              *)
(*   sim: the simulated device behind the transport; logging: whether the  *)
(*     log level lets info! and warn! evaluate their arguments.            *)
(***************************************************************************)
VARIABLES servo_status, servo_alarm, servo_cycle_count,
          alarm_present, fault_present, try_count, x, curr_pos, in_range_ret,
          op, accel, decel, velocity, encoder_position, pc, stack,
          clock, now, polls, io, last_read, count_at_call, sim, logging

vars == << servo_status, servo_alarm, servo_cycle_count,
           alarm_present, fault_present, try_count, x, curr_pos, in_range_ret,
           op, accel, decel, velocity, encoder_position, pc, stack,
           clock, now, polls, io, last_read, count_at_call, sim, logging >>

fields == << servo_status, servo_alarm, servo_cycle_count >>
resetLocals == << alarm_present, fault_present, try_count >>
rangeLocals == << x, curr_pos, in_range_ret >>
callArgs == << op, accel, decel, velocity, encoder_position, count_at_call, sim, logging >>
timer == << now, polls >>

\* Model bounds: the moves counted, and the length of the status cache
\* beyond which the caller stops asking for alarms.
MaxCycles == 1
MaxStale == 2
\* Model bound: the milliseconds between the call and Instant::now() that
\* the clock keeps.
MaxLag == 1000

ZERO == U64(0)

\* AppliedDevice::new (lib.rs 428-436), before the caller's first call.
InitWith(sims, levels) ==
    /\ servo_status = <<>>
    /\ servo_alarm = <<>>
    /\ servo_cycle_count = 0
    /\ alarm_present = FALSE
    /\ fault_present = FALSE
    /\ try_count = 0
    /\ x = 0
    /\ curr_pos = ZERO
    /\ in_range_ret = FALSE
    /\ op = "none"
    /\ accel = ZERO
    /\ decel = ZERO
    /\ velocity = ZERO
    /\ encoder_position = ZERO
    /\ pc = "idle"
    /\ stack = <<>>
    /\ clock = 0
    /\ now = 0
    /\ polls = 0
    /\ io = <<>>
    /\ last_read = 0
    /\ count_at_call = 0
    /\ sim \in sims
    /\ logging \in levels

(***************************************************************************)
(* The transport and the control transfers.                                *)
(***************************************************************************)
\* read_holding_registers(register, 1)
Read(register, word) ==
    /\ io' = Append(io, <<"r", register, 0>>)
    /\ last_read' = word
\* write_register (lib.rs 338-342): the value goes out `as u16`.
Write(register, value) ==
    /\ io' = Append(io, <<"w", register, AsU16(value)>>)
    /\ last_read' = last_read
Sleep(ms) == clock' = clock + ms
\* Instant::now(): of the time slept since the call the first MaxLag ms are
\* kept, so clock - now is the time elapsed since Instant::now(), and clock
\* is at most the time elapsed since the call.
Capture(slept) == IF slept > MaxLag THEN MaxLag ELSE slept

Call(entry, back) == pc' = entry /\ stack' = <<back>> \o stack
Return ==
    IF stack = <<>>
    THEN pc' = "done" /\ stack' = stack
    ELSE pc' = Head(stack) /\ stack' = Tail(stack)

\* get_servo_status (lib.rs 142-155): read, reset the cache, decode into it.
GetServoStatus(read) ==
    /\ Read(STATUS_REG, read)
    /\ servo_status' = DecodeFlags(STATUS_CODE_NAMES, read)

\* The caller calls a public function.
Invoke(name, entry, backs) ==
    /\ pc = "idle"
    /\ op' = name
    /\ pc' = entry
    /\ stack' = backs
    /\ count_at_call' = servo_cycle_count
    /\ UNCHANGED << fields, resetLocals, rangeLocals, clock, timer, io, last_read, sim, logging >>

NoArgs == UNCHANGED << accel, decel, velocity, encoder_position >>

\* The call has returned to the caller.
Finish ==
    /\ pc = "done"
    /\ pc' = "idle"
    /\ op' = "none"
    /\ accel' = ZERO /\ decel' = ZERO /\ velocity' = ZERO
    /\ encoder_position' = ZERO
    /\ curr_pos' = ZERO /\ in_range_ret' = FALSE
    /\ clock' = 0 /\ now' = 0 /\ polls' = 0 /\ io' = <<>> /\ last_read' = 0
    /\ UNCHANGED << fields, resetLocals, x, stack, count_at_call, sim, logging >>

(***************************************************************************)
(* get_servo_cycle_count, get_servo_alarms, get_servo_status.              *)
(***************************************************************************)
CallGetServoCycleCount ==
    /\ Invoke("get_servo_cycle_count", "done", <<>>)
    /\ NoArgs

CallGetServoAlarms ==
    /\ Len(servo_status) <= MaxStale
    /\ Invoke("get_servo_alarms", "alarms_128", <<>>)
    /\ NoArgs

\* lib.rs 128-139: the alarm cache is reset, and the names go to servo_status.
GetServoAlarms(read) ==
    /\ Read(ALARM_REG, read)
    /\ servo_alarm' = <<>>
    /\ servo_status' = servo_status \o DecodeFlags(ALARM_CODE_NAMES, read)

alarms_128 ==
    /\ pc = "alarms_128"
    /\ \E read \in AlarmValues : GetServoAlarms(read)
    /\ Return
    /\ UNCHANGED << servo_cycle_count, resetLocals, rangeLocals, callArgs, clock, timer >>

CallGetServoStatus ==
    /\ Invoke("get_servo_status", "status_143", <<>>)
    /\ NoArgs

status_143 ==
    /\ pc = "status_143"
    /\ \E read \in StatusOf(sim) : GetServoStatus(read)
    /\ Return
    /\ UNCHANGED << servo_alarm, servo_cycle_count, resetLocals, rangeLocals,
                    callArgs, clock, timer >>

(***************************************************************************)
(* reset_alarm_or_fault, lib.rs 157-185.                                   *)
(***************************************************************************)
CallReset ==
    /\ Invoke("reset_alarm_or_fault", "reset_158", <<>>)
    /\ NoArgs

reset_158 ==
    /\ pc = "reset_158"
    /\ \E read \in StatusOf(sim) : GetServoStatus(read)
    /\ alarm_present' = Contains(servo_status', ALARM)
    /\ pc' = "reset_159"
    /\ UNCHANGED << servo_alarm, servo_cycle_count, fault_present, try_count,
                    rangeLocals, callArgs, stack, clock, timer >>

\* lib.rs 159-165: the second read, try_count = 0, and the no-fault branch.
reset_159 ==
    /\ pc = "reset_159"
    /\ \E read \in StatusOf(sim) : GetServoStatus(read)
    /\ fault_present' = Contains(servo_status', FAULT)
    /\ try_count' = 0
    /\ IF ~alarm_present /\ ~fault_present'
       THEN Call("enable_189", "reset_164")
       ELSE pc' = "reset_172" /\ stack' = stack
    /\ UNCHANGED << servo_alarm, servo_cycle_count, alarm_present,
                    rangeLocals, callArgs, clock, timer >>

LeaveReset ==
    /\ alarm_present' = FALSE
    /\ fault_present' = FALSE
    /\ try_count' = 0
    /\ Return

reset_164 ==
    /\ pc = "reset_164"
    /\ LeaveReset
    /\ UNCHANGED << fields, rangeLocals, callArgs, clock, timer, io, last_read >>

\* A reset that ends the enclosing operation when it gives up: C18 tells it
\* from the source's.
reset_172_Aborts ==
    /\ pc = "reset_172"
    /\ Write(EXECUTE_COMMAND, U64(CMD_RESET))
    /\ Sleep(SETTLE_MS)
    /\ IF ResetGivesUp(try_count)
       THEN /\ alarm_present' = FALSE /\ fault_present' = FALSE
            /\ try_count' = 0
            /\ pc' = "done" /\ stack' = <<>>
       ELSE /\ try_count' = try_count + 1
            /\ pc' = "reset_180"
            /\ UNCHANGED << alarm_present, fault_present, stack >>
    /\ UNCHANGED << fields, rangeLocals, callArgs, timer >>

\* lib.rs 172-179: the reset command, the settle sleep, the try limit.
reset_172 ==
    /\ pc = "reset_172"
    /\ Write(EXECUTE_COMMAND, U64(CMD_RESET))
    /\ Sleep(SETTLE_MS)
    /\ IF ResetGivesUp(try_count)
       THEN LeaveReset
       ELSE /\ try_count' = try_count + 1
            /\ pc' = "reset_180"
            /\ UNCHANGED << alarm_present, fault_present, stack >>
    /\ UNCHANGED << fields, rangeLocals, callArgs, timer >>

reset_180 ==
    /\ pc = "reset_180"
    /\ \E read \in StatusOf(sim) : GetServoStatus(read)
    /\ alarm_present' = Contains(servo_status', ALARM)
    /\ pc' = "reset_181"
    /\ UNCHANGED << servo_alarm, servo_cycle_count, fault_present, try_count,
                    rangeLocals, callArgs, stack, clock, timer >>

\* lib.rs 181-184: the second read, the loop test, enable_motor on success.
reset_181 ==
    /\ pc = "reset_181"
    /\ \E read \in StatusOf(sim) : GetServoStatus(read)
    /\ fault_present' = Contains(servo_status', FAULT)
    /\ IF alarm_present \/ fault_present'
       THEN pc' = "reset_172" /\ stack' = stack
       ELSE Call("enable_189", "reset_185")
    /\ UNCHANGED << servo_alarm, servo_cycle_count, alarm_present, try_count,
                    rangeLocals, callArgs, clock, timer >>

reset_185 ==
    /\ pc = "reset_185"
    /\ LeaveReset
    /\ UNCHANGED << fields, rangeLocals, callArgs, clock, timer, io, last_read >>

(***************************************************************************)
(* enable_motor (lib.rs 188-195) and disable_motor (lib.rs 198-203).       *)
(***************************************************************************)
CallEnable ==
    /\ Invoke("enable_motor", "enable_189", <<>>)
    /\ NoArgs

\* An enable_motor that writes whatever the status says: C9 tells it from
\* the source's.
enable_189_Unconditional ==
    /\ pc = "enable_189"
    /\ \E read \in StatusOf(sim) : GetServoStatus(read)
    /\ pc' = "enable_193" /\ stack' = stack
    /\ UNCHANGED << servo_alarm, servo_cycle_count, resetLocals, rangeLocals,
                    callArgs, clock, timer >>

enable_189 ==
    /\ pc = "enable_189"
    /\ \E read \in StatusOf(sim) : GetServoStatus(read)
    /\ IF Contains(servo_status', MOTOR_ENABLED)
       THEN Return
       ELSE pc' = "enable_193" /\ stack' = stack
    /\ UNCHANGED << servo_alarm, servo_cycle_count, resetLocals, rangeLocals,
                    callArgs, clock, timer >>

enable_193 ==
    /\ pc = "enable_193"
    /\ Write(EXECUTE_COMMAND, U64(CMD_ENABLE))
    /\ Sleep(SETTLE_MS)
    /\ Return
    /\ UNCHANGED << fields, resetLocals, rangeLocals, callArgs, timer >>

CallDisable ==
    /\ Invoke("disable_motor", "disable_199", <<>>)
    /\ NoArgs

disable_199 ==
    /\ pc = "disable_199"
    /\ \E read \in StatusOf(sim) : GetServoStatus(read)
    /\ IF Contains(servo_status', MOTOR_ENABLED)
       THEN pc' = "disable_200" /\ stack' = stack
       ELSE Return
    /\ UNCHANGED << servo_alarm, servo_cycle_count, resetLocals, rangeLocals,
                    callArgs, clock, timer >>

disable_200 ==
    /\ pc = "disable_200"
    /\ Write(EXECUTE_COMMAND, U64(CMD_DISABLE))
    /\ Sleep(SETTLE_MS)
    /\ Return
    /\ UNCHANGED << fields, resetLocals, rangeLocals, callArgs, timer >>

(***************************************************************************)
(* initialize (lib.rs 313-319) and shutdown (lib.rs 323-336).              *)
(***************************************************************************)
\* One write_register call and the sleep after it.
WriteStep(register, value, ms, next) ==
    /\ Write(register, value)
    /\ Sleep(ms)
    /\ IF next = "return" THEN Return ELSE pc' = next /\ stack' = stack
    /\ UNCHANGED << fields, resetLocals, rangeLocals, callArgs, timer >>

CallInitialize ==
    /\ Invoke("initialize", "initialize_315", <<>>)
    /\ NoArgs

initialize_315 ==
    /\ pc = "initialize_315"
    /\ WriteStep(MODE_SELECT, U64(1), SETTLE_MS, "initialize_317")
initialize_317 ==
    /\ pc = "initialize_317"
    /\ WriteStep(EXECUTE_COMMAND, U64(CMD_HOME), SETTLE_MS, "return")

CallShutdown ==
    /\ Invoke("shutdown", "shutdown_325", <<>>)
    /\ NoArgs

shutdown_325 ==
    /\ pc = "shutdown_325"
    /\ WriteStep(MODE_SELECT, U64(1), SHORT_MS, "shutdown_328")
shutdown_328 ==
    /\ pc = "shutdown_328"
    /\ WriteStep(EXECUTE_COMMAND, U64(CMD_DISCONNECT), SHORT_MS, "shutdown_331")
\* A third write that leaves mode-select at 1: C10 tells it from the source's.
shutdown_331_ModeOne ==
    /\ pc = "shutdown_331"
    /\ WriteStep(MODE_SELECT, U64(1), SHORT_MS, "shutdown_333")
shutdown_331 ==
    /\ pc = "shutdown_331"
    /\ WriteStep(MODE_SELECT, U64(0), SHORT_MS, "shutdown_333")
shutdown_333 ==
    /\ pc = "shutdown_333"
    /\ WriteStep(EXECUTE_COMMAND, U64(CMD_DISCONNECT), SHORT_MS, "return")

(***************************************************************************)
(* dump_registers, lib.rs 355-367: one block read, whose words go to the   *)
(* log only.                                                               *)
(***************************************************************************)
CallDumpRegisters ==
    /\ Invoke("dump_registers", "dump_357", <<>>)
    /\ NoArgs

dump_357 ==
    /\ pc = "dump_357"
    /\ io' = Append(io, <<"d", 0, MAX_REGISTER>>)
    /\ Return
    /\ UNCHANGED << fields, resetLocals, rangeLocals, callArgs, clock, timer, last_read >>

(***************************************************************************)
(* get_encoder_count (lib.rs 107-125) and in_range (lib.rs 305-311).       *)
(***************************************************************************)
\* A panic ends the process.
Panic ==
    /\ pc' = "panicked"
    /\ UNCHANGED << fields, resetLocals, rangeLocals, callArgs, stack, clock, timer, io, last_read >>

CallGetEncoderCount ==
    /\ Invoke("get_encoder_count", "encoder_110", <<>>)
    /\ NoArgs

encoder_110 ==
    /\ pc = "encoder_110"
    /\ \E read \in EncoderHigh : Read(ENCODER_POS_1_REG, read) /\ x' = read
    /\ pc' = "encoder_117"
    /\ UNCHANGED << fields, resetLocals, curr_pos, in_range_ret, callArgs,
                    stack, clock, timer >>

encoder_117 ==
    /\ pc = "encoder_117"
    /\ \E y \in EncoderLow :
          Read(ENCODER_POS_2_REG, y) /\ curr_pos' = EncoderPosition(x, y)
    /\ x' = 0
    /\ Return
    /\ UNCHANGED << fields, resetLocals, in_range_ret, callArgs, clock, timer >>

CallInRange(targets) ==
    /\ Invoke("in_range", "in_range_306", <<>>)
    /\ \E requested_pos \in targets : encoder_position' = requested_pos
    /\ UNCHANGED << accel, decel, velocity >>

\* lib.rs 306-308: the two bounds, then the call of get_encoder_count.  An
\* overflow of a bound panics in a build with overflow checks and wraps in
\* a build without.
in_range_306 ==
    /\ pc = "in_range_306"
    /\ \/ /\ Call("encoder_110", "in_range_310")
          /\ UNCHANGED << fields, resetLocals, rangeLocals, callArgs, clock, timer, io, last_read >>
       \/ /\ BoundsOverflow(encoder_position)
          /\ Panic

in_range_310 ==
    /\ pc = "in_range_310"
    /\ in_range_ret' = WithinBounds(encoder_position, curr_pos)
    /\ Return
    /\ UNCHANGED << fields, resetLocals, x, curr_pos, callArgs, clock, timer, io, last_read >>

(***************************************************************************)
(* home_servo, lib.rs 205-237.                                             *)
(***************************************************************************)
CallHome ==
    /\ Invoke("home_servo", "reset_158", <<"home_210">>)
    /\ NoArgs

home_210 ==
    /\ pc = "home_210"
    /\ WriteStep(MODE_SELECT, U64(1), SETTLE_MS, "home_212")

\* lib.rs 212-216: the home command, the settle sleep, Instant::now().
home_212 ==
    /\ pc = "home_212"
    /\ Write(EXECUTE_COMMAND, U64(CMD_HOME))
    /\ clock' = Capture(clock + SETTLE_MS)
    /\ now' = clock'
    /\ pc' = "home_217"
    /\ UNCHANGED << fields, resetLocals, rangeLocals, callArgs, stack, polls >>

home_217 ==
    /\ pc = "home_217"
    /\ \E read \in StatusWhile(sim, HOMING, polls) : GetServoStatus(read)
    /\ IF Contains(servo_status', HOMING)
       THEN pc' = "home_218" /\ stack' = stack
       ELSE Return
    /\ UNCHANGED << servo_alarm, servo_cycle_count, resetLocals, rangeLocals,
                    callArgs, clock, timer >>

\* lib.rs 218: info! reads the status for its message when the level is on.
home_218 ==
    /\ pc = "home_218"
    /\ IF logging
       THEN \E read \in StatusOf(sim) : GetServoStatus(read)
       ELSE UNCHANGED << servo_status, io, last_read >>
    /\ pc' = "home_219"
    /\ UNCHANGED << servo_alarm, servo_cycle_count, resetLocals, rangeLocals,
                    callArgs, stack, clock, timer >>

home_219 ==
    /\ pc = "home_219"
    /\ \E read \in StatusOf(sim) : GetServoStatus(read)
    /\ IF Contains(servo_status', ALARM)
       THEN Call("reset_158", "home_223")
       ELSE pc' = "home_229" /\ stack' = stack
    /\ UNCHANGED << servo_alarm, servo_cycle_count, resetLocals, rangeLocals,
                    callArgs, clock, timer >>

\* A restart that sends the home command in place of the mode select: C13
\* tells it from the source's.
home_223_HomeCommand ==
    /\ pc = "home_223"
    /\ WriteStep(EXECUTE_COMMAND, U64(CMD_HOME), SETTLE_MS, "home_225")
home_223 ==
    /\ pc = "home_223"
    /\ WriteStep(MODE_SELECT, U64(1), SETTLE_MS, "home_225")
home_225 ==
    /\ pc = "home_225"
    /\ WriteStep(EXECUTE_COMMAND, U64(CMD_HOME), SETTLE_MS, "home_229")

\* lib.rs 229-233: the deadline test, else the poll sleep.
home_229 ==
    /\ pc = "home_229"
    /\ IF HomingTimedOut(clock - now)
       THEN Return /\ UNCHANGED << clock, polls, io, last_read >>
       ELSE /\ Sleep(POLL_MS)
            /\ polls' = IF polls < MaxPolls THEN polls + 1 ELSE polls
            /\ io' = <<>>
            /\ last_read' = last_read
            /\ pc' = "home_217"
            /\ stack' = stack
    /\ UNCHANGED << fields, resetLocals, rangeLocals, callArgs, now >>

(***************************************************************************)
(* move_servo, lib.rs 239-299.                                             *)
(***************************************************************************)
CallMove(settings, targets) ==
    /\ servo_cycle_count < MaxCycles
    /\ Invoke("move_servo", "in_range_306", <<"move_240">>)
    /\ \E s \in settings :
          accel' = s[1] /\ decel' = s[2] /\ velocity' = s[3]
    /\ \E target \in targets : encoder_position' = target

\* lib.rs 240-254: return when in range, else reset_alarm_or_fault.
move_240 ==
    /\ pc = "move_240"
    /\ IF in_range_ret
       THEN Return
       ELSE Call("reset_158", "move_257")
    /\ in_range_ret' = FALSE
    /\ curr_pos' = ZERO
    /\ UNCHANGED << fields, resetLocals, x, callArgs, clock, timer, io, last_read >>

move_257 ==
    /\ pc = "move_257"
    /\ WriteStep(ACCELERATION, accel, 0, "move_258")
move_258 ==
    /\ pc = "move_258"
    /\ WriteStep(DECELERATION, decel, 0, "move_259")
\* A move that sends the command right after the velocity: C14 tells it
\* from the source's.
move_259_ThenCommand ==
    /\ pc = "move_259"
    /\ WriteStep(VELOCITY, velocity, 0, "move_271")
move_259 ==
    /\ pc = "move_259"
    /\ WriteStep(VELOCITY, velocity, 0, "move_260")
move_260 ==
    /\ pc = "move_260"
    /\ WriteStep(DISTANCE_1, Move1(encoder_position), 0, "move_261")
move_261 ==
    /\ pc = "move_261"
    /\ WriteStep(DISTANCE_2, Move2(encoder_position), LATCH_MS, "move_266")

\* lib.rs 264-268: info! reads the two distance registers for its message
\* when logging is on.
move_266 ==
    /\ pc = "move_266"
    /\ IF logging
       THEN Read(DISTANCE_1, 0) /\ pc' = "move_267"
       ELSE UNCHANGED << io, last_read >> /\ pc' = "move_271"
    /\ UNCHANGED << fields, resetLocals, rangeLocals, callArgs, stack, clock, timer >>

move_267 ==
    /\ pc = "move_267"
    /\ Read(DISTANCE_2, 0)
    /\ pc' = "move_271"
    /\ UNCHANGED << fields, resetLocals, rangeLocals, callArgs, stack, clock, timer >>

\* lib.rs 271-276: the move command, the sleep, Instant::now().
move_271 ==
    /\ pc = "move_271"
    /\ Write(EXECUTE_COMMAND, U64(CMD_MOVE))
    /\ clock' = Capture(clock + SHORT_MS)
    /\ now' = clock'
    /\ pc' = "move_277"
    /\ UNCHANGED << fields, resetLocals, rangeLocals, callArgs, stack, polls >>

\* lib.rs 277-278 and 289: the loop test; in the loop reset_alarm_or_fault,
\* after it in_range.
move_277 ==
    /\ pc = "move_277"
    /\ \E read \in StatusWhile(sim, MOVING, polls) : GetServoStatus(read)
    /\ IF Contains(servo_status', MOVING)
       THEN Call("reset_158", "move_279")
       ELSE Call("in_range_306", "move_289")
    /\ UNCHANGED << servo_alarm, servo_cycle_count, resetLocals, rangeLocals,
                    callArgs, clock, timer >>

move_279 ==
    /\ pc = "move_279"
    /\ \E read \in StatusAtArrivalTest(sim, polls) : GetServoStatus(read)
    /\ IF Contains(servo_status', IN_POSITION)
       THEN Call("in_range_306", "move_289")
       ELSE pc' = "move_282" /\ stack' = stack
    /\ UNCHANGED << servo_alarm, servo_cycle_count, resetLocals, rangeLocals,
                    callArgs, clock, timer >>

\* lib.rs 282-286: the deadline test, else the poll sleep.
move_282 ==
    /\ pc = "move_282"
    /\ IF MoveTimedOut(clock - now)
       THEN Call("in_range_306", "move_289") /\ UNCHANGED << clock, polls, io, last_read >>
       ELSE /\ Sleep(POLL_MS)
            /\ polls' = IF polls < MaxPolls THEN polls + 1 ELSE polls
            /\ io' = <<>>
            /\ last_read' = last_read
            /\ pc' = "move_277"
            /\ stack' = stack
    /\ UNCHANGED << fields, resetLocals, rangeLocals, callArgs, now >>

\* A move that counts the cycle whatever the final tolerance check found: C8
\* tells it from the source's.
move_289_AlwaysCounts ==
    /\ pc = "move_289"
    /\ servo_cycle_count' = servo_cycle_count + 1
    /\ IF logging
       THEN Call("encoder_110", "move_299")
       ELSE pc' = "move_299" /\ stack' = stack
    /\ in_range_ret' = FALSE
    /\ curr_pos' = ZERO
    /\ UNCHANGED << servo_status, servo_alarm, resetLocals, x, callArgs,
                    clock, timer, io, last_read >>

\* lib.rs 289-298: the final tolerance check counts the cycle; either branch
\* reads the encoder for its message when logging is on.
move_289 ==
    /\ pc = "move_289"
    /\ servo_cycle_count' =
          IF in_range_ret THEN servo_cycle_count + 1 ELSE servo_cycle_count
    /\ IF logging
       THEN Call("encoder_110", "move_299")
       ELSE pc' = "move_299" /\ stack' = stack
    /\ in_range_ret' = FALSE
    /\ curr_pos' = ZERO
    /\ UNCHANGED << servo_status, servo_alarm, resetLocals, x, callArgs,
                    clock, timer, io, last_read >>

move_299 ==
    /\ pc = "move_299"
    /\ Return
    /\ curr_pos' = ZERO
    /\ UNCHANGED << fields, resetLocals, x, in_range_ret, callArgs, clock, timer, io, last_read >>

(***************************************************************************)
(* The caller's inputs and the specification.                              *)
(***************************************************************************)
MoveSettings == { << U64(100), U64(100), U64(50) >> }
MoveTargets == { U64(500), U64(65546) }
RangeTargets ==
    { U64(500), U64(1000), U64(2500), U64(2501), U64(65546), U64(66036) }

Init == InitWith({"free"}, BOOLEAN)

Next ==
    \/ CallGetServoCycleCount
    \/ CallGetServoAlarms
    \/ CallGetServoStatus
    \/ CallGetEncoderCount
    \/ CallReset
    \/ CallEnable
    \/ CallDisable
    \/ CallHome
    \/ CallMove(MoveSettings, MoveTargets)
    \/ CallInRange(RangeTargets)
    \/ CallInitialize
    \/ CallShutdown
    \/ CallDumpRegisters
    \/ Finish
    \/ dump_357
    \/ alarms_128
    \/ status_143
    \/ encoder_110 \/ encoder_117
    \/ in_range_306 \/ in_range_310
    \/ reset_158 \/ reset_159 \/ reset_164 \/ reset_172
    \/ reset_180 \/ reset_181 \/ reset_185
    \/ enable_189 \/ enable_193
    \/ disable_199 \/ disable_200
    \/ home_210 \/ home_212 \/ home_217 \/ home_218 \/ home_219
    \/ home_223 \/ home_225 \/ home_229
    \/ move_240 \/ move_257 \/ move_258 \/ move_259 \/ move_260 \/ move_261
    \/ move_266 \/ move_267 \/ move_271 \/ move_277 \/ move_279 \/ move_282
    \/ move_289 \/ move_299
    \/ initialize_315 \/ initialize_317
    \/ shutdown_325 \/ shutdown_328 \/ shutdown_331 \/ shutdown_333

Spec == Init /\ [][Next]_vars

(***************************************************************************)
(* The device that always reports Alarm: the caller resets, enables,       *)
(* disables, homes and reads the status.                                   *)
(***************************************************************************)
InitAlarm == InitWith({"alarm_stuck"}, BOOLEAN)

NextAlarm ==
    \/ CallReset
    \/ CallEnable
    \/ CallDisable
    \/ CallHome
    \/ CallGetServoStatus
    \/ Finish
    \/ status_143
    \/ reset_158 \/ reset_159 \/ reset_172 \/ reset_180 \/ reset_181
    \/ enable_189 \/ enable_193
    \/ disable_199
    \/ home_210 \/ home_212 \/ home_217 \/ home_218 \/ home_219
    \/ home_223 \/ home_225 \/ home_229

SpecAlarm == InitAlarm /\ [][NextAlarm]_vars

(***************************************************************************)
(* The device that never clears Homing: the caller homes.  The thread      *)
(* runs whenever it can: it only ever waits in a sleep or in a transport   *)
(* call, and both return.                                                  *)
(***************************************************************************)
InitHoming == InitWith({"homing_stuck"}, BOOLEAN)

NextHoming ==
    \/ CallHome
    \/ Finish
    \/ reset_158 \/ reset_159 \/ reset_164 \/ reset_172
    \/ reset_180 \/ reset_181 \/ reset_185
    \/ enable_189 \/ enable_193
    \/ home_210 \/ home_212 \/ home_217 \/ home_218 \/ home_219
    \/ home_223 \/ home_225 \/ home_229

SpecHoming == InitHoming /\ [][NextHoming]_vars /\ WF_vars(NextHoming)

(***************************************************************************)
(* The device at rest with the motor enabled: the caller moves.  The       *)
(* targets run over the sixteen-bit and thirty-two-bit edges of the codec: *)
(* 0, 65535, 65536, 65546, 131082, 2^31 and 2^32 - 1.                      *)
(***************************************************************************)
CodecTargets ==
    { U64(0), U64(65535), U64(65536), U64(65546), U64(131082),
      << 0, 0, 0, 128, 0, 0, 0, 0 >>,
      << 255, 255, 255, 255, 0, 0, 0, 0 >> }

InitSettled == InitWith({"settled"}, BOOLEAN)

NextCodec ==
    \/ CallMove(MoveSettings, CodecTargets)
    \/ Finish
    \/ encoder_110 \/ encoder_117
    \/ in_range_306 \/ in_range_310
    \/ reset_158 \/ reset_159 \/ reset_164
    \/ enable_189
    \/ move_240 \/ move_257 \/ move_258 \/ move_259 \/ move_260 \/ move_261
    \/ move_266 \/ move_267 \/ move_271 \/ move_277
    \/ move_289 \/ move_299

SpecCodec == InitSettled /\ [][NextCodec]_vars

(***************************************************************************)
(* The device that never clears Moving: the caller moves, to a target      *)
(* whose tolerance bounds do not overflow.  The thread runs whenever it    *)
(* can, as in SpecHoming.                                                  *)
(***************************************************************************)
MovingTargets == { U64(65546) }

InitMoving == InitWith({"moving"}, {TRUE})

NextMoving ==
    \/ CallMove(MoveSettings, MovingTargets)
    \/ Finish
    \/ encoder_110 \/ encoder_117
    \/ in_range_306 \/ in_range_310
    \/ reset_158 \/ reset_159 \/ reset_164 \/ reset_172
    \/ reset_180 \/ reset_181 \/ reset_185
    \/ enable_189 \/ enable_193
    \/ move_240 \/ move_257 \/ move_258 \/ move_259 \/ move_260 \/ move_261
    \/ move_266 \/ move_267 \/ move_271 \/ move_277 \/ move_279 \/ move_282
    \/ move_289 \/ move_299

SpecMoving == InitMoving /\ [][NextMoving]_vars /\ WF_vars(NextMoving)

(***************************************************************************)
(* The transport that may fail.  Spec is the controller over a transport   *)
(* whose calls all succeed; here any transport call may instead return an  *)
(* I/O error.  The source takes the result of every call with              *)
(* expect("IO Error") (lib.rs 111, 118, 348, 360) or unwrap() (lib.rs      *)
(* 341), so the error panics.  TransportCall is the register of the        *)
(* transport call each place of the code makes next.                       *)
(***************************************************************************)
StatusReadPlaces ==
    { "status_143", "reset_158", "reset_159", "reset_180", "reset_181",
      "enable_189", "disable_199", "home_217", "home_219",
      "move_277", "move_279" }
ExecuteWritePlaces ==
    { "reset_172", "enable_193", "disable_200", "initialize_317",
      "shutdown_328", "shutdown_333", "home_212", "home_225", "move_271" }
ModeWritePlaces == { "initialize_315", "shutdown_325", "shutdown_331", "home_210", "home_223" }
LoggingReadPlaces == { "home_218", "move_266", "move_267" }

TransportCall(place) ==
    CASE place \in StatusReadPlaces -> STATUS_REG
      [] place \in ExecuteWritePlaces -> EXECUTE_COMMAND
      [] place \in ModeWritePlaces -> MODE_SELECT
      [] place = "home_218" -> STATUS_REG
      [] place \in {"move_260", "move_266"} -> DISTANCE_1
      [] place \in {"move_261", "move_267"} -> DISTANCE_2
      [] place = "move_257" -> ACCELERATION
      [] place = "move_258" -> DECELERATION
      [] place = "move_259" -> VELOCITY
      [] place = "alarms_128" -> ALARM_REG
      [] place = "dump_357" -> 0
      [] place = "encoder_110" -> ENCODER_POS_1_REG
      [] place = "encoder_117" -> ENCODER_POS_2_REG

TransportPlaces ==
    StatusReadPlaces \cup ExecuteWritePlaces \cup ModeWritePlaces
        \cup { "move_257", "move_258", "move_259", "move_260", "move_261",
               "alarms_128", "dump_357", "encoder_110", "encoder_117" }

IoError ==
    /\ \/ pc \in TransportPlaces
       \/ pc \in LoggingReadPlaces /\ logging
    /\ io' = Append(io, <<"e", TransportCall(pc), 0>>)
    /\ pc' = "panicked"
    /\ UNCHANGED << fields, resetLocals, rangeLocals, callArgs, stack, clock, timer, last_read >>

NextIoError == Next \/ IoError

SpecIoError == Init /\ [][NextIoError]_vars

(***************************************************************************)
(* Helpers of the properties.                                              *)
(***************************************************************************)
\* The integer a u64 of at most 31 bits stands for.
RECURSIVE IntFrom(_, _)
IntFrom(a, i) == IF i > 4 THEN 0 ELSE a[i] + BYTE * IntFrom(a, i + 1)
IntOf(a) == IntFrom(a, 1)

\* target - 1000 <= current <= target + 1000, over the integers.
WithinTolerance(target, current) ==
    /\ IntOf(target) - ENCODER_POSITION_RANGE <= IntOf(current)
    /\ IntOf(current) <= IntOf(target) + ENCODER_POSITION_RANGE

Count(log, e) == Cardinality({i \in 1..Len(log) : log[i] = e})
Writes(log) == SelectSeq(log, LAMBDA e : e[1] = "w")
Reads(log) == SelectSeq(log, LAMBDA e : e[1] = "r")

ResetCommand == <<"w", EXECUTE_COMMAND, CMD_RESET>>
EnableCommand == <<"w", EXECUTE_COMMAND, CMD_ENABLE>>
DisableCommand == <<"w", EXECUTE_COMMAND, CMD_DISABLE>>

Returned(name) == op = name /\ pc = "done"

(***************************************************************************)
(* C1.  Fault-reset bound: against the device that always reports Alarm,   *)
(* a call of reset_alarm_or_fault has written the reset command (186 to    *)
(* register 124) exactly 3 times when it returns, and the enable command   *)
(* (159) never.                                                            *)
(***************************************************************************)
C1_ResetWritesThreeTimes ==
    (sim = "alarm_stuck" /\ Returned("reset_alarm_or_fault")) =>
        /\ Count(io, ResetCommand) = 3
        /\ Count(io, EnableCommand) = 0

(***************************************************************************)
(* C2.  Move idempotence: when the encoder position move_servo read at its *)
(* start is within the tolerance window of the target, the call returns at *)
(* once, with no register written and servo_cycle_count as it was.         *)
(***************************************************************************)
C2_MoveIdempotent ==
    [][ (pc = "move_240" /\ WithinTolerance(encoder_position, curr_pos)) =>
            /\ pc' = "done"
            /\ Writes(io') = <<>>
            /\ servo_cycle_count' = count_at_call ]_vars

(***************************************************************************)
(* C3.  Homing deadline: against the device that never clears Homing,      *)
(* whatever it reports for Alarm, every call of home_servo returns; it     *)
(* returns from the deadline test, with more than MAX_HOMING_TIME seconds  *)
(* elapsed since Instant::now(); and no step of the call changes           *)
(* servo_cycle_count.                                                      *)
(***************************************************************************)
HomeKeepsCycleCount ==
    [][ op = "home_servo" => servo_cycle_count' = servo_cycle_count ]_vars
HomeReturnsAtDeadline ==
    [](Returned("home_servo") =>
          /\ SecsOf(clock - now) > MAX_HOMING_TIME
          /\ servo_cycle_count = count_at_call)
HomeReturns == (op = "home_servo") ~> Returned("home_servo")

C3_HomingDeadline == HomeKeepsCycleCount /\ HomeReturnsAtDeadline /\ HomeReturns

C3_Witness ==
    /\ Returned("home_servo")
    /\ sim = "homing_stuck"
    /\ SecsOf(clock - now) > MAX_HOMING_TIME
    /\ Contains(servo_status, HOMING)

(***************************************************************************)
(* C4.  Tolerance check: in_range(target) returns true if and only if      *)
(* target - 1000 <= current <= target + 1000 over the integers, for every  *)
(* target, those below 1000 too.                                           *)
(***************************************************************************)
C4_InRangeIffWithinTolerance ==
    Returned("in_range") =>
        (in_range_ret <=> WithinTolerance(encoder_position, curr_pos))

(***************************************************************************)
(* C5.  get_servo_alarms returns the names of the alarm table whose bit is *)
(* set in the word it read, in table order, and servo_alarm (the vector it *)
(* returns a reference to) holds them after the call.                      *)
(***************************************************************************)
C5_AlarmsDecoded ==
    Returned("get_servo_alarms") =>
        servo_alarm = DecodeFlags(ALARM_CODE_NAMES, last_read)

(***************************************************************************)
(* C6.  Over the calls of get_servo_status and get_servo_alarms: a status  *)
(* read leaves in servo_status exactly the decode of the word read and     *)
(* does not touch servo_alarm; an alarm read leaves in servo_alarm exactly *)
(* the decode of the word read and does not touch servo_status; calling    *)
(* and returning change neither.  So each cache is the decode of the most  *)
(* recent read of its register.                                            *)
(***************************************************************************)
C6_CachesHoldLastDecode ==
    [][ (op' \in {"get_servo_status", "get_servo_alarms"} \/
         op \in {"get_servo_status", "get_servo_alarms"}) =>
            CASE pc = "status_143" ->
                    /\ servo_status' = DecodeFlags(STATUS_CODE_NAMES, last_read')
                    /\ servo_alarm' = servo_alarm
              [] pc = "alarms_128" ->
                    /\ servo_alarm' = DecodeFlags(ALARM_CODE_NAMES, last_read')
                    /\ servo_status' = servo_status
              [] OTHER ->
                    /\ servo_status' = servo_status
                    /\ servo_alarm' = servo_alarm ]_vars

(***************************************************************************)
(* C7.  Position codec round trip: the words move_servo has written to     *)
(* DISTANCE_1 and DISTANCE_2 (the last two transport calls when line 261   *)
(* is done) join, by the rule of get_encoder_count, to the target of the   *)
(* call, for every target below 2^32; the target 131082 goes out as        *)
(* (2, 10); the encoder words (1, 10) join to 65546, and get_encoder_count *)
(* has joined a low word 10 to 10 or, under the high word 1, to 65546.     *)
(***************************************************************************)
DistanceWords == << io[Len(io) - 1], io[Len(io)] >>

C7_CodecRoundTrip ==
    /\ pc = "move_266" =>
          /\ Len(io) >= 2
          /\ DistanceWords[1][1] = "w" /\ DistanceWords[1][2] = DISTANCE_1
          /\ DistanceWords[2][1] = "w" /\ DistanceWords[2][2] = DISTANCE_2
          /\ EncoderPosition(DistanceWords[1][3], DistanceWords[2][3])
                = encoder_position
          /\ encoder_position = U64(131082) =>
                DistanceWords = << <<"w", DISTANCE_1, 2>>, <<"w", DISTANCE_2, 10>> >>
    /\ EncoderPosition(1, 10) = U64(65546)
    /\ (pc = "in_range_310" /\ last_read = 10) =>
          curr_pos \in { U64(10), U64(65546) }

C7_Witness ==
    /\ pc = "move_266"
    /\ encoder_position = << 255, 255, 255, 255, 0, 0, 0, 0 >>
    /\ DistanceWords = << <<"w", DISTANCE_1, 65535>>, <<"w", DISTANCE_2, 65535>> >>

(***************************************************************************)
(* C8.  servo_cycle_count changes only in the step of move_servo after the *)
(* in_range call that follows the poll loop (line 289), only when that     *)
(* call returned true, by +1, and once in a call; and that step does       *)
(* change it when the call returned true.  So the count never decreases    *)
(* and every other operation leaves it alone.                              *)
(***************************************************************************)
C8_CycleCountMonotonic ==
    [][ /\ servo_cycle_count' # servo_cycle_count =>
              /\ op = "move_servo" /\ pc = "move_289"
              /\ in_range_ret
              /\ servo_cycle_count = count_at_call
              /\ servo_cycle_count' = servo_cycle_count + 1
        /\ (pc = "move_289" /\ in_range_ret) =>
              servo_cycle_count' = servo_cycle_count + 1 ]_vars

C8_Witness ==
    /\ Returned("move_servo")
    /\ servo_cycle_count = count_at_call + 1

(***************************************************************************)
(* C9.  When enable_motor returns, its transport calls are the one status  *)
(* read alone if the word read has Motor Enabled set, and else the status  *)
(* read followed by the one write of 159 to EXECUTE_COMMAND; when          *)
(* disable_motor returns, they are the status read followed by the one     *)
(* write of 158 if the word read has Motor Enabled set, and else the read  *)
(* alone.                                                                  *)
(***************************************************************************)
StatusRead == <<"r", STATUS_REG, 0>>

C9_EnableDisableWriteOnce ==
    /\ Returned("enable_motor") =>
          io = IF HasFlag(last_read, MOTOR_ENABLED)
               THEN << StatusRead >>
               ELSE << StatusRead, EnableCommand >>
    /\ Returned("disable_motor") =>
          io = IF HasFlag(last_read, MOTOR_ENABLED)
               THEN << StatusRead, DisableCommand >>
               ELSE << StatusRead >>

C9_Witness ==
    /\ Returned("enable_motor")
    /\ ~HasFlag(last_read, MOTOR_ENABLED)
    /\ io = << StatusRead, EnableCommand >>

(***************************************************************************)
(* C10.  When shutdown returns, its transport calls are exactly the four   *)
(* writes 125 <- 1, 124 <- 254, 125 <- 0, 124 <- 254, in this order.       *)
(***************************************************************************)
C10_ShutdownWritesFour ==
    Returned("shutdown") =>
        io = << <<"w", MODE_SELECT, 1>>,
                <<"w", EXECUTE_COMMAND, CMD_DISCONNECT>>,
                <<"w", MODE_SELECT, 0>>,
                <<"w", EXECUTE_COMMAND, CMD_DISCONNECT>> >>

C10_Witness ==
    /\ Returned("shutdown")
    /\ Len(io) = 4
    /\ clock = 4 * SHORT_MS

(***************************************************************************)
(* C11.  No operation panics on an I/O error: after a transport call of    *)
(* any operation has failed, the process has not panicked (the call has    *)
(* ended and control is back at the caller).                               *)
(***************************************************************************)
FailedCall == io # <<>> /\ io[Len(io)][1] = "e"

C11_IoErrorEndsOnlyTheCall == FailedCall => pc # "panicked"

(***************************************************************************)
(* C12.  reset_alarm_or_fault goes to its no-fault path (line 163) only if *)
(* one of the two status words it read before deciding had neither Alarm   *)
(* nor Fault: servo_status holds the decode of the first word before the   *)
(* step of line 159 and the decode of the second after it.                 *)
(***************************************************************************)
NeitherAlarmNorFault(status) == ~Contains(status, ALARM) /\ ~Contains(status, FAULT)

C12_NoFaultPathSawCleanStatus ==
    [][ (pc = "reset_159" /\ pc' = "enable_189") =>
            \/ NeitherAlarmNorFault(servo_status)
            \/ NeitherAlarmNorFault(servo_status') ]_vars

(***************************************************************************)
(* C13.  In home_servo, a poll iteration whose alarm test (the status read *)
(* of line 219) shows Alarm calls reset_alarm_or_fault, to come back at    *)
(* line 223, and one that shows no Alarm goes to the deadline test; line   *)
(* 223 writes 1 to mode-select and line 225, next, the home command.  And  *)
(* in the register writes of every operation, each write of the home       *)
(* command comes right after a write of 1 to mode-select.                  *)
(***************************************************************************)
ModeSelectHoming == <<"w", MODE_SELECT, 1>>
HomeCommand == <<"w", EXECUTE_COMMAND, CMD_HOME>>

HomeCommandFollowsModeSelect ==
    \A i \in 1..Len(Writes(io)) :
        Writes(io)[i] = HomeCommand =>
            i > 1 /\ Writes(io)[i - 1] = ModeSelectHoming

AlarmTestRestartsHoming ==
    [][ /\ pc = "home_219" =>
              IF Contains(servo_status', ALARM)
              THEN pc' = "reset_158" /\ Head(stack') = "home_223"
              ELSE pc' = "home_229"
        /\ pc = "home_223" =>
              io' = Append(io, ModeSelectHoming) /\ pc' = "home_225"
        /\ pc = "home_225" =>
              io' = Append(io, HomeCommand) /\ pc' = "home_229" ]_vars

C13_AlarmRestartsHoming == AlarmTestRestartsHoming /\ []HomeCommandFollowsModeSelect

\* A poll iteration after the first has restarted the homing.
C13_Witness ==
    /\ op = "home_servo" /\ pc = "home_229"
    /\ polls > 0
    /\ Writes(io) # <<>>
    /\ Writes(io)[Len(Writes(io))] = HomeCommand
    /\ Count(io, ResetCommand) > 0

\* The statement over every status word the iteration has read: the
\* iteration that holds a status with Alarm and Homing when it comes to
\* the alarm test calls reset_alarm_or_fault.
C13_AnyAlarmReadRestarts ==
    [][ (pc = "home_219" /\ Contains(servo_status, ALARM)
            /\ Contains(servo_status, HOMING)) =>
                pc' = "reset_158" ]_vars

(***************************************************************************)
(* C14.  In a call of move_servo, until its first poll sleep, the register *)
(* writes that are not the reset or enable command of                      *)
(* reset_alarm_or_fault are, in this order, the writes of registers 27,    *)
(* 28, 29, 30, 31 and then the move command (103 to register 124), or a    *)
(* start of that sequence; and no reset or enable command comes between    *)
(* two of them: those of line 254 come before, those of the poll loop      *)
(* after.  After a poll sleep the call writes nothing but reset and        *)
(* enable commands.                                                        *)
(***************************************************************************)
MoveCommand == <<"w", EXECUTE_COMMAND, CMD_MOVE>>
MoveOrder ==
    << <<ACCELERATION>>, <<DECELERATION>>, <<VELOCITY>>, <<DISTANCE_1>>,
       <<DISTANCE_2>>, <<EXECUTE_COMMAND, CMD_MOVE>> >>

IsResetWrite(e) == e \in {ResetCommand, EnableCommand}
MoveWrites(log) == SelectSeq(Writes(log), LAMBDA e : ~IsResetWrite(e))
Shape(e) == IF e[2] = EXECUTE_COMMAND THEN <<e[2], e[3]>> ELSE <<e[2]>>

\* The writes of `part` stand next to one another in `whole`.
Contiguous(part, whole) ==
    \/ part = <<>>
    \/ \E first \in 1..Len(whole) :
          /\ first + Len(part) - 1 <= Len(whole)
          /\ SubSeq(whole, first, first + Len(part) - 1) = part

C14_MoveWriteOrder ==
    op = "move_servo" =>
        LET moves == MoveWrites(io)
        IN  /\ Len(moves) <= Len(MoveOrder)
            /\ \A i \in 1..Len(moves) : Shape(moves[i]) = MoveOrder[i]
            /\ Contiguous(moves, Writes(io))
            /\ polls > 0 => moves = <<>>

\* The move command has gone out after a reset command and the five
\* parameter registers.
C14_Witness ==
    /\ op = "move_servo" /\ pc = "move_277" /\ polls = 0
    /\ Writes(io)[1] = ResetCommand
    /\ Len(MoveWrites(io)) = Len(MoveOrder)
    /\ Writes(io)[Len(Writes(io))] = MoveCommand

(***************************************************************************)
(* C15.  Move deadline, against the device that reports Moving at every    *)
(* read: every poll iteration calls reset_alarm_or_fault, to come back at  *)
(* line 279; an iteration whose read of line 279 shows In Position leaves  *)
(* the loop at once, without sleeping; another leaves it if more than      *)
(* MAX_MOVE_TIME seconds have passed since Instant::now() and else sleeps  *)
(* 300 ms and polls again; so the loop is left either on In Position or    *)
(* past the deadline; and every call of move_servo returns.                *)
(***************************************************************************)
LeavesMoveLoop == pc' = "in_range_306" /\ Head(stack') = "move_289" /\ clock' = clock

MoveLoopSteps ==
    [][ /\ pc = "move_277" =>
              /\ Contains(servo_status', MOVING)
              /\ pc' = "reset_158" /\ Head(stack') = "move_279"
        /\ pc = "move_279" =>
              IF Contains(servo_status', IN_POSITION)
              THEN LeavesMoveLoop
              ELSE pc' = "move_282" /\ clock' = clock
        /\ pc = "move_282" =>
              IF SecsOf(clock - now) > MAX_MOVE_TIME
              THEN LeavesMoveLoop
              ELSE pc' = "move_277" /\ clock' = clock + POLL_MS ]_vars

MoveLoopLeftInPositionOrLate ==
    [](pc = "move_289" =>
          \/ Contains(servo_status, IN_POSITION)
          \/ SecsOf(clock - now) > MAX_MOVE_TIME)

MoveEnds == (op = "move_servo") ~> Returned("move_servo")

C16_DeadlineFromOperationStart ==
    [][ /\ (pc = "home_229" /\ SecsOf(clock) > MAX_HOMING_TIME)
              => pc' # "home_217"
        /\ (pc = "move_282" /\ SecsOf(clock) > MAX_MOVE_TIME)
              => pc' # "move_277" ]_vars

(***************************************************************************)
(* The caller resets, against any device.                                  *)
(***************************************************************************)
NextReset ==
    \/ CallReset
    \/ Finish
    \/ reset_158 \/ reset_159 \/ reset_164 \/ reset_172
    \/ reset_180 \/ reset_181 \/ reset_185
    \/ enable_189 \/ enable_193

SpecReset == Init /\ [][NextReset]_vars /\ WF_vars(NextReset)

(***************************************************************************)
(* C17: whatever the device answers, a call of reset_alarm_or_fault        *)
(* returns; it writes the reset command (186) at most 4 times and the      *)
(* enable command (159) at most once, and writes no register but 124;     *)
(* it goes to enable_motor only when the first of its latest two status    *)
(* reads showed no Alarm and the second no Fault, and the enable command   *)
(* is written by enable_motor alone.                                       *)
(***************************************************************************)
ResetWritesBounded ==
    [](op = "reset_alarm_or_fault" =>
          /\ Count(io, ResetCommand) <= RESET_TRY_LIMIT + 2
          /\ Count(io, EnableCommand) <= 1
          /\ \A i \in 1..Len(io) :
                io[i][1] = "w" => io[i] \in {ResetCommand, EnableCommand})

EnableAfterCleanPair ==
    [][ /\ (pc # "enable_189" /\ pc' = "enable_189") =>
              /\ pc \in {"reset_159", "reset_181"}
              /\ ~Contains(servo_status, ALARM)
              /\ ~Contains(servo_status', FAULT)
        /\ Count(io', EnableCommand) > Count(io, EnableCommand) =>
              pc = "enable_193" ]_vars

ResetReturns == (op = "reset_alarm_or_fault") ~> Returned("reset_alarm_or_fault")

C17_ResetBounded == ResetWritesBounded /\ EnableAfterCleanPair /\ ResetReturns

\* The call gave up: four reset commands, no enable command.
C17_Witness ==
    /\ Returned("reset_alarm_or_fault")
    /\ Count(io, ResetCommand) = RESET_TRY_LIMIT + 2
    /\ Count(io, EnableCommand) = 0

(***************************************************************************)
(* C18: a reset that gave up does not stop the enclosing operation.  A     *)
(* call of move_servo that went past its initial tolerance check (it has   *)
(* read the status) has written the move command (103) exactly once when   *)
(* it first tests the loop and when it returns, and never writes it after  *)
(* the first poll sleep; a call of home_servo has written the home command *)
(* (120) when it first tests the loop and when it returns.  io holds the   *)
(* transport calls since the call while polls = 0.                         *)
(***************************************************************************)
MoveCommandOnce ==
    op = "move_servo" =>
        /\ Count(io, MoveCommand) <= 1
        /\ polls > 0 => Count(io, MoveCommand) = 0
        /\ (polls = 0 /\ pc = "move_277") => Count(io, MoveCommand) = 1
        /\ (polls = 0 /\ pc = "done" /\ Count(io, StatusRead) > 0) =>
              Count(io, MoveCommand) = 1

HomeCommandIssued ==
    (op = "home_servo" /\ polls = 0 /\ pc \in {"home_217", "done"}) =>
        Count(io, HomeCommand) >= 1

C18_FailedResetDoesNotStop == MoveCommandOnce /\ HomeCommandIssued

\* move_servo has returned with the move command written once, after a reset
\* that gave up: four reset commands and no enable command.
C18_Witness ==
    /\ Returned("move_servo")
    /\ Count(io, ResetCommand) = RESET_TRY_LIMIT + 2
    /\ Count(io, EnableCommand) = 0
    /\ Count(io, MoveCommand) = 1

(***************************************************************************)
(* C19: get_encoder_count returns a position the encoder held during the   *)
(* call.  The device held `before` when register 4 was read (its high word *)
(* is x) and `after` when register 5 was read (its low word is the word    *)
(* read); on its way from one to the other it held the positions between   *)
(* them, and the position returned is one of these.                        *)
(***************************************************************************)
DevicePositions == {EncoderPosition(h, l) : h \in EncoderHigh, l \in EncoderLow}
HighWord(position) == AsU16(Move1(position))
LowWord(position) == AsU16(Move2(position))
HeldBetween(position, before, after) ==
    \/ LeqU64(before, position) /\ LeqU64(position, after)
    \/ LeqU64(after, position) /\ LeqU64(position, before)

C19_NoTornPosition ==
    [][ pc = "encoder_117" =>
          \A before, after \in DevicePositions :
              (HighWord(before) = x /\ LowWord(after) = last_read') =>
                  HeldBetween(curr_pos', before, after) ]_vars

(***************************************************************************)
(* The device at rest with the motor enabled: the caller moves with        *)
(* settings and targets wider than sixteen and thirty-two bits: 65636,     *)
(* 2^32 + 5 and 65535 for the settings, 2^32 and 2^32 + 65546 among the    *)
(* targets.                                                                *)
(***************************************************************************)
WideSettings ==
    { << U64(100), U64(100), U64(50) >>,
      << U64(65636), << 5, 0, 0, 0, 1, 0, 0, 0 >>, U64(65535) >> }
WideTargets ==
    { U64(65546), << 0, 0, 0, 0, 1, 0, 0, 0 >>, << 10, 0, 1, 0, 1, 0, 0, 0 >> }

NextWide ==
    \/ CallMove(WideSettings, WideTargets)
    \/ Finish
    \/ encoder_110 \/ encoder_117
    \/ in_range_306 \/ in_range_310
    \/ reset_158 \/ reset_159 \/ reset_164
    \/ enable_189
    \/ move_240 \/ move_257 \/ move_258 \/ move_259 \/ move_260 \/ move_261
    \/ move_266 \/ move_267 \/ move_271 \/ move_277
    \/ move_289 \/ move_299

SpecWide == InitSettled /\ [][NextWide]_vars

(***************************************************************************)
(* C20: every write sends its value mod 65536.  For every target p, those  *)
(* of 2^32 and more too, move_servo writes acceleration, deceleration and  *)
(* velocity mod 65536, (p / 65536) mod 65536 to distance-high and          *)
(* p mod 65536 to distance-low, and does not panic; its final tolerance    *)
(* check compares the encoder with p itself, so for p of 2^32 and more,    *)
(* which no encoder position comes near, it finds the target not reached.  *)
(***************************************************************************)
Low16(value) == IntOf(ModU64(value, U16_MOD))
AtLeast2To32(value) == \E i \in 5..U64_BYTES : value[i] # 0

C20_WritesLow16 ==
    /\ \A i \in 1..Len(io) : io[i][1] = "w" => io[i][3] \in 0..(U16_MOD - 1)
    /\ pc # "panicked"
    /\ pc = "move_266" =>
          /\ Len(io) >= 5
          /\ SubSeq(io, Len(io) - 4, Len(io)) =
                << <<"w", ACCELERATION, Low16(accel)>>,
                   <<"w", DECELERATION, Low16(decel)>>,
                   <<"w", VELOCITY, Low16(velocity)>>,
                   <<"w", DISTANCE_1, Low16(DivU64(encoder_position, U16_MOD))>>,
                   <<"w", DISTANCE_2, Low16(encoder_position)>> >>
          /\ encoder_position = << 10, 0, 1, 0, 1, 0, 0, 0 >> =>
                DistanceWords = << <<"w", DISTANCE_1, 1>>, <<"w", DISTANCE_2, 10>> >>
    /\ (op = "move_servo" /\ pc = "move_289") =>
          in_range_ret = IF AtLeast2To32(encoder_position)
                         THEN FALSE
                         ELSE WithinTolerance(encoder_position, curr_pos)

\* The move to 2^32 + 65546 with the wide settings has written 1 and 10 to
\* the distance registers; the encoder reads 65546, the position these two
\* words stand for, and the final check finds the target not reached.
C20_Witness ==
    /\ op = "move_servo" /\ pc = "move_289"
    /\ encoder_position = << 10, 0, 1, 0, 1, 0, 0, 0 >>
    /\ accel = U64(65636)
    /\ curr_pos = U64(65546)
    /\ ~in_range_ret

====
